---- MODULE Spec2Model ----
(***************************************************************************)
(* Kiro2api-Node: the account pool (src/src/pool.js) and the request       *)
(* translator (KiroClient, src/unnamed/part_000) as state machines.        *)
(*                                                                         *)
(* Node runs every handler on one thread: a handler runs without           *)
(* interruption up to its first await.  Each action below is one such run. *)
(* What follows the final `await this.save()` of a pool handler is only a  *)
(* return, so those handlers are one action each; addAccount awaits the    *)
(* credential validation first and is therefore two.                       *)
(***************************************************************************)
EXTENDS Integers, Sequences, FiniteSets, TLC

VARIABLES
    pc,               \* "constructed" (before load()) or "running"
    accounts,         \* this.accounts: a Map in insertion order, as a sequence
    tokenManagers,    \* this.tokenManagers: the ids that have a TokenManager
    strategy,         \* this.strategy
    roundRobinIndex,  \* this.roundRobinIndex
    timers,           \* the setTimeout callbacks of recordError still to run
    disk,             \* the content of accounts.json
    pending,          \* fs.writeFile calls in flight: the snapshots being written
    adding,           \* addAccount calls awaiting tm.ensureValidToken()
    nextGen,          \* the next object identity (a heap allocation counter)
    ops,              \* history: the number of handler calls made so far
    lastOp,           \* history: the last handler that ran, with its result
    selections,       \* history: what each successful selectAccount produced
    run,              \* history: the round-robin picks since the active list last changed
    request,          \* the client request convertRequest is called with
    result,           \* what convertRequest returned or threw
    toolNameMap,      \* toolNameMap of one request: original name -> Kiro name
    usedToolNames,    \* usedToolNames of one request
    returned,         \* history: the getOrCreateKiroToolName calls made, with their results
    calls             \* history: the calls callApiStream has made, in order

poolVars == <<pc, accounts, tokenManagers, strategy, roundRobinIndex, timers, disk,
              pending, adding, nextGen, ops, lastOp, selections, run>>

translation == <<request, result, calls>>

naming == <<toolNameMap, usedToolNames, returned>>

vars == <<poolVars, translation, naming>>

----------------------------------------------------------------------------
(* Bounds of the model *)

MaxOps == 3        \* handler calls made on the pool after load()

(* The cooldown interval, 5 * 60 * 1000 ms, in clock ticks of 150 s *)
Cooldown == 2

AccountIds == {"a1", "a2"}
Statuses == {"active", "cooldown", "invalid", "disabled"}
Strategies == {"round-robin", "random", "least-used"}

(* null, for a time or an index *)
Never == 0 - 1
NoId == "null"
(* new Date().toISOString(): the value of a timestamp is not modelled *)
Timestamp == "date"
NoDate == "null"

----------------------------------------------------------------------------
(* The roster *)

Ids(accs) == {accs[i].id : i \in 1..Len(accs)}

(* Map.prototype.get *)
MapGet(accs, id) == accs[CHOOSE i \in 1..Len(accs) : accs[i].id = id]

(* Map.prototype.set: an existing key keeps its place, a new key goes last *)
MapSet(accs, acc) ==
    IF acc.id \in Ids(accs)
    THEN [i \in 1..Len(accs) |-> IF accs[i].id = acc.id THEN acc ELSE accs[i]]
    ELSE Append(accs, acc)

(* Map.prototype.delete *)
MapDelete(accs, id) == SelectSeq(accs, LAMBDA a : a.id # id)

(* JSON.stringify of one account.  gen (the identity of the object) and the *)
(* history fields are not fields of the object.                             *)
ToJson(acc) ==
    [id |-> acc.id, status |-> acc.status, requestCount |-> acc.requestCount,
     errorCount |-> acc.errorCount, lastUsedAt |-> acc.lastUsedAt]

(* save(): the roster is serialised when save() is called, and written later *)
Snapshot(accs) == [i \in 1..Len(accs) |-> ToJson(accs[i])]

(* fs.writeFile starts.  raced: a write of other data was in flight at some *)
(* moment of this write's life.  Writes of the same data count as one.      *)
Save(accs) ==
    LET data == Snapshot(accs)
        others == {w \in pending : w.data # data}
        same == {w \in pending : w.data = data}
    IN  pending' = {[w EXCEPT !.raced = TRUE] : w \in others}
                   \cup {[data |-> data,
                          raced |-> others # {} \/ (\E w \in same : w.raced)]}

(* the roster file: unreadable (absent, or not JSON) or a JSON array *)
File(roster) == [valid |-> TRUE, roster |-> roster]
Unreadable == [valid |-> FALSE, roster |-> <<>>]

(* account.status = s.  Two fields of an account are history: age counts the *)
(* ticks since the account was last put in cooldown, by a rate-limit error or *)
(* by load() (Never when it is not in cooldown); touched tells that           *)
(* markInvalid, enableAccount or disableAccount ran on it since its last      *)
(* rate-limit error.                                                          *)
SetStatus(acc, s) ==
    [acc EXCEPT !.status = s, !.age = IF s = "cooldown" THEN 0 ELSE Never]

(* a bump that loses the increment *)
BumpStale(selected) == [selected EXCEPT !.lastUsedAt = Timestamp]

(* selected.requestCount++; selected.lastUsedAt = new Date().toISOString() *)
Bump(selected) ==
    [selected EXCEPT !.requestCount = @ + 1, !.lastUsedAt = Timestamp]

(* a filter that only leaves out the invalid accounts *)
IsNotInvalid(a) == a.status # "invalid"

(* the filter of selectAccount *)
IsAvailable(a) == a.status = "active"

(* a list of candidates that is not filtered at all *)
WholeRoster(accs) == accs

Available(accs) == SelectSeq(accs, IsAvailable)

ActiveIds(accs) == [i \in 1..Len(Available(accs)) |-> Available(accs)[i].id]

(* available.reduce((a, b) => a.requestCount < b.requestCount ? a : b) *)
RECURSIVE Reduce(_, _, _)
Reduce(available, a, i) ==
    IF i > Len(available) THEN a
    ELSE Reduce(available,
                IF a.requestCount < available[i].requestCount THEN a ELSE available[i],
                i + 1)

LeastUsed(available) == Reduce(available, available[1], 2)

(* an index clamped to the list instead of taken modulo its length *)
RoundRobinClamped(available, index) ==
    available[IF index < Len(available) THEN index + 1 ELSE Len(available)]

(* available[this.roundRobinIndex % available.length] *)
RoundRobin(available, index) == available[(index % Len(available)) + 1]

(* the switch of selectAccount: the accounts it may pick *)
Choices(available, strat, index) ==
    CASE strat = "random" -> {available[i] : i \in 1..Len(available)}
      [] strat = "least-used" -> {LeastUsed(available)}
      [] OTHER -> {RoundRobin(available, index)}

(* history: the round-robin picks made while the active list stayed the same *)
KeepRun(accs, strat) ==
    IF ActiveIds(accs) = ActiveIds(accounts) /\ strat = strategy THEN run ELSE <<>>

(* history: `run` keeps the last picks, as many as there are account ids *)
LastPicks(picks) ==
    IF Len(picks) > Cardinality(AccountIds) THEN Tail(picks) ELSE picks

Op(name, id, rl) == [op |-> name, id |-> id, rl |-> rl]

----------------------------------------------------------------------------
(* Rosters an earlier run of the gateway can have left on disk *)

InitialAccount(id, status) ==
    [id |-> id, status |-> status, requestCount |-> 0,
     errorCount |-> IF status = "cooldown" THEN 1 ELSE 0, lastUsedAt |-> NoDate]

InitialStatuses == {"active", "cooldown"}

InitialRosters ==
    {<<>>}
    \cup {<<InitialAccount("a1", s)>> : s \in InitialStatuses}
    \cup {<<InitialAccount("a1", s), InitialAccount("a2", t)>> :
            s \in InitialStatuses, t \in InitialStatuses}

(* new AccountPool(config, db), before load() *)
NewAccountPool ==
    /\ pc = "constructed"
    /\ accounts = <<>>
    /\ tokenManagers = {}
    /\ strategy = "round-robin"
    /\ roundRobinIndex = 0
    /\ timers = {}
    /\ disk \in {Unreadable} \cup {File(r) : r \in InitialRosters}
    /\ pending = {}
    /\ adding = {}
    /\ nextGen = 1
    /\ lastOp = Op("constructor", NoId, FALSE)
    /\ selections = <<>>
    /\ run = <<>>
    /\ ops = 0

(* load(): every account of the file becomes an object of the roster *)
Load ==
    /\ pc = "constructed"
    /\ pc' = "running"
    /\ LET n == Len(disk.roster) IN
       /\ accounts' = [i \in 1..n |->
             [id |-> disk.roster[i].id, gen |-> i, status |-> disk.roster[i].status,
              requestCount |-> disk.roster[i].requestCount,
              errorCount |-> disk.roster[i].errorCount,
              lastUsedAt |-> disk.roster[i].lastUsedAt,
              age |-> IF disk.roster[i].status = "cooldown" THEN 0 ELSE Never,
              touched |-> FALSE]]
       /\ tokenManagers' = {disk.roster[i].id : i \in 1..n}
       /\ nextGen' = n + 1
    /\ lastOp' = Op("load", NoId, FALSE)
    /\ UNCHANGED <<translation, naming, ops, strategy, roundRobinIndex, timers, disk, pending, adding,
                   selections, run>>

(* selectAccount() *)
SelectAccount ==
    /\ pc = "running"
    /\ ops < MaxOps
    /\ ops' = ops + 1
    /\ LET available == Available(accounts) IN
       IF Len(available) = 0
       THEN /\ lastOp' = Op("selectAccount", NoId, FALSE)
            /\ UNCHANGED <<accounts, roundRobinIndex, pending, selections, run>>
       ELSE \E selected \in Choices(available, strategy, roundRobinIndex) :
            LET bumped == Bump(selected)
                accs == MapSet(accounts, bumped)
                rr == strategy \notin {"random", "least-used"}
            IN  /\ accounts' = accs
                /\ roundRobinIndex' = IF rr THEN roundRobinIndex + 1 ELSE roundRobinIndex
                /\ Save(accs)
                /\ lastOp' = Op("selectAccount", selected.id, FALSE)
                /\ selections' = Append(selections,
                      [id |-> selected.id, gen |-> selected.gen,
                       requestCount |-> bumped.requestCount,
                       index |-> IF rr THEN roundRobinIndex ELSE Never])
                /\ run' = IF rr THEN LastPicks(Append(run, selected.id)) ELSE <<>>
    /\ UNCHANGED <<translation, naming, pc, tokenManagers, strategy, timers, disk, adding, nextGen>>

(* an error count that puts the account in cooldown whatever the error *)
CountedAndCooled(account) ==
    [account EXCEPT !.errorCount = @ + 1, !.status = "cooldown"]

(* account.errorCount++ *)
Counted(account) == [account EXCEPT !.errorCount = @ + 1]

(* recordError(id, isRateLimit) *)
RecordError(id, isRateLimit) ==
    /\ pc = "running"
    /\ ops < MaxOps
    /\ ops' = ops + 1
    /\ lastOp' = Op("recordError", id, isRateLimit)
    /\ IF id \notin Ids(accounts)
       THEN UNCHANGED <<accounts, timers, pending, run>>
       ELSE LET account == MapGet(accounts, id)
                counted == Counted(account)
                after == IF isRateLimit
                         THEN [SetStatus(counted, "cooldown") EXCEPT !.touched = FALSE]
                         ELSE counted
                accs == MapSet(accounts, after)
            IN  /\ accounts' = accs
                /\ timers' = IF isRateLimit
                             THEN timers \cup {[id |-> id, gen |-> account.gen,
                                                left |-> Cooldown]}
                             ELSE timers
                /\ Save(accs)
                /\ run' = KeepRun(accs, strategy)
    /\ UNCHANGED <<translation, naming, pc, tokenManagers, strategy, roundRobinIndex, disk, adding,
                   nextGen, selections>>

(* a callback that tests for the wrong status and so never acts *)
CooldownKept(account) == account

(* the callback recordError gave to setTimeout; it holds the account object, *)
(* which may have left the roster since                                       *)
CooldownExpired(account) ==
    IF account.status = "cooldown" THEN SetStatus(account, "active") ELSE account

TimerFires(t) ==
    /\ t \in timers
    /\ t.left = 0
    /\ timers' = timers \ {t}
    /\ LET live == t.id \in Ids(accounts) /\ MapGet(accounts, t.id).gen = t.gen
           accs == IF live
                   THEN MapSet(accounts, CooldownExpired(MapGet(accounts, t.id)))
                   ELSE accounts
       IN  /\ accounts' = accs
           /\ lastOp' = Op("timer", IF live THEN t.id ELSE NoId, FALSE)
           /\ run' = KeepRun(accs, strategy)
    /\ UNCHANGED <<translation, naming, ops, pc, tokenManagers, strategy, roundRobinIndex, disk, pending,
                   adding, nextGen, selections>>

(* markInvalid(id), enableAccount(id), disableAccount(id) *)
AdminSet(name, id, status) ==
    /\ pc = "running"
    /\ ops < MaxOps
    /\ ops' = ops + 1
    /\ lastOp' = Op(name, id, FALSE)
    /\ IF id \notin Ids(accounts)
       THEN UNCHANGED <<accounts, timers, pending, run>>
       ELSE LET accs == MapSet(accounts,
                        [SetStatus(MapGet(accounts, id), status) EXCEPT !.touched = TRUE])
            IN  /\ accounts' = accs
                /\ UNCHANGED timers
                /\ Save(accs)
                /\ run' = KeepRun(accs, strategy)
    /\ UNCHANGED <<translation, naming, pc, tokenManagers, strategy, roundRobinIndex, disk, adding,
                   nextGen, selections>>

MarkInvalid(id) == AdminSet("markInvalid", id, "invalid")

EnableAccount(id) == AdminSet("enableAccount", id, "active")

DisableAccount(id) == AdminSet("disableAccount", id, "disabled")

(* addAccount(account, skipValidation): up to `await tm.ensureValidToken()` *)
AddAccountValidate(id) ==
    /\ pc = "running"
    /\ ops < MaxOps
    /\ ops' = ops + 1
    /\ id \notin adding
    /\ adding' = adding \cup {id}
    /\ lastOp' = Op("addAccount:validate", id, FALSE)
    /\ UNCHANGED <<translation, naming, pc, accounts, tokenManagers, strategy, roundRobinIndex, timers,
                   disk, pending, nextGen, selections, run>>

(* a registration that forgets the token manager *)
RegisterAccountOnly(id) ==
    LET newAccount == [id |-> id, gen |-> nextGen, status |-> "active",
                       requestCount |-> 0, errorCount |-> 0, lastUsedAt |-> NoDate,
                       age |-> Never, touched |-> FALSE]
        accs == MapSet(accounts, newAccount)
    IN  /\ accounts' = accs
        /\ tokenManagers' = tokenManagers
        /\ nextGen' = nextGen + 1
        /\ Save(accs)
        /\ lastOp' = Op("addAccount", id, FALSE)
        /\ run' = KeepRun(accs, strategy)

(* addAccount from this.accounts.set(id, newAccount) on *)
Register(id) ==
    LET newAccount == [id |-> id, gen |-> nextGen, status |-> "active",
                       requestCount |-> 0, errorCount |-> 0, lastUsedAt |-> NoDate,
                       age |-> Never, touched |-> FALSE]
        accs == MapSet(accounts, newAccount)
    IN  /\ accounts' = accs
        /\ tokenManagers' = tokenManagers \cup {id}
        /\ nextGen' = nextGen + 1
        /\ Save(accs)
        /\ lastOp' = Op("addAccount", id, FALSE)
        /\ run' = KeepRun(accs, strategy)

(* the validation succeeded *)
AddAccountValid(id) ==
    /\ id \in adding
    /\ adding' = adding \ {id}
    /\ Register(id)
    /\ UNCHANGED <<translation, naming, ops, pc, strategy, roundRobinIndex, timers, disk, selections>>

(* ensureValidToken() threw: addAccount rejects *)
AddAccountInvalid(id) ==
    /\ id \in adding
    /\ adding' = adding \ {id}
    /\ lastOp' = Op("addAccount:rejected", id, FALSE)
    /\ UNCHANGED <<translation, naming, ops, pc, accounts, tokenManagers, strategy, roundRobinIndex, timers,
                   disk, pending, nextGen, selections, run>>

(* addAccount(account, true) *)
AddAccountSkipValidation(id) ==
    /\ pc = "running"
    /\ ops < MaxOps
    /\ ops' = ops + 1
    /\ Register(id)
    /\ UNCHANGED <<translation, naming, pc, strategy, roundRobinIndex, timers, disk, adding, selections>>

(* removeAccount(id) *)
RemoveAccount(id) ==
    /\ pc = "running"
    /\ ops < MaxOps
    /\ ops' = ops + 1
    /\ lastOp' = Op("removeAccount", id, FALSE)
    /\ LET accs == MapDelete(accounts, id) IN
       /\ accounts' = accs
       /\ tokenManagers' = tokenManagers \ {id}
       /\ IF id \in Ids(accounts) THEN Save(accs) ELSE UNCHANGED pending
       /\ run' = KeepRun(accs, strategy)
    /\ UNCHANGED <<translation, naming, pc, strategy, roundRobinIndex, timers, disk, adding, nextGen,
                   selections>>

(* removeAccounts(ids): the ids of the roster among ids are deleted, with *)
(* their token managers; the roster is saved when one was deleted        *)
RemoveAccounts(ids) ==
    /\ pc = "running"
    /\ ops < MaxOps
    /\ ops' = ops + 1
    /\ lastOp' = Op("removeAccounts", NoId, FALSE)
    /\ LET accs == SelectSeq(accounts, LAMBDA a : a.id \notin ids) IN
       /\ accounts' = accs
       /\ tokenManagers' = tokenManagers \ (ids \cap Ids(accounts))
       /\ IF ids \cap Ids(accounts) # {} THEN Save(accs) ELSE UNCHANGED pending
       /\ run' = KeepRun(accs, strategy)
    /\ UNCHANGED <<translation, naming, pc, strategy, roundRobinIndex, timers, disk, adding, nextGen,
                   selections>>

(* setStrategy(strategy) *)
SetStrategy(s) ==
    /\ pc = "running"
    /\ ops < MaxOps
    /\ ops' = ops + 1
    /\ strategy' = s
    /\ lastOp' = Op("setStrategy", NoId, FALSE)
    /\ run' = KeepRun(accounts, s)
    /\ UNCHANGED <<translation, naming, pc, accounts, tokenManagers, roundRobinIndex, timers, disk,
                   pending, adding, nextGen, selections>>

(* one fs.writeFile of save() completes.  Writes in flight together complete  *)
(* in any order, and each truncates the file and writes from offset 0, so a   *)
(* write that raced another may leave a mix of two snapshots that is not JSON. *)
WriteCompletes(w) ==
    /\ w \in pending
    /\ pending' = pending \ {w}
    /\ \/ disk' = File(w.data)
       \/ w.raced /\ disk' = Unreadable
    /\ UNCHANGED <<translation, naming, ops, pc, accounts, tokenManagers, strategy, roundRobinIndex, timers,
                   adding, nextGen, lastOp, selections, run>>

(* 150 s pass: every timer comes closer, every cooldown grows older (the age *)
(* stops counting above Cooldown).  A timer that is due runs before the clock *)
(* moves on.                                                                  *)
Older(acc) ==
    IF acc.age # Never /\ acc.age <= Cooldown THEN [acc EXCEPT !.age = @ + 1] ELSE acc

Tick ==
    /\ pc = "running"
    /\ \A t \in timers : t.left > 0
    /\ timers' = {[t EXCEPT !.left = @ - 1] : t \in timers}
    /\ accounts' = [i \in 1..Len(accounts) |-> Older(accounts[i])]
    /\ UNCHANGED <<translation, naming, pc, tokenManagers, strategy, roundRobinIndex, disk, pending, adding,
                   nextGen, ops, lastOp, selections, run>>

Next ==
    \/ Load
    \/ SelectAccount
    \/ \E id \in AccountIds, isRateLimit \in BOOLEAN : RecordError(id, isRateLimit)
    \/ \E t \in timers : TimerFires(t)
    \/ \E id \in AccountIds : MarkInvalid(id)
    \/ \E id \in AccountIds : EnableAccount(id)
    \/ \E id \in AccountIds : DisableAccount(id)
    \/ \E id \in AccountIds : AddAccountValidate(id)
    \/ \E id \in AccountIds : AddAccountValid(id)
    \/ \E id \in AccountIds : AddAccountInvalid(id)
    \/ \E id \in AccountIds : AddAccountSkipValidation(id)
    \/ \E id \in AccountIds : RemoveAccount(id)
    \/ \E ids \in SUBSET AccountIds : RemoveAccounts(ids)
    \/ \E s \in Strategies : SetStrategy(s)
    \/ Tick

----------------------------------------------------------------------------
(* Strings.  A JavaScript string is the sequence of its characters. *)

LowerCase == <<"a", "b", "c", "d", "e", "f", "g", "h", "i", "j", "k", "l", "m",
              "n", "o", "p", "q", "r", "s", "t", "u", "v", "w", "x", "y", "z">>
UpperCase == <<"A", "B", "C", "D", "E", "F", "G", "H", "I", "J", "K", "L", "M",
              "N", "O", "P", "Q", "R", "S", "T", "U", "V", "W", "X", "Y", "Z">>
Digits == <<"0", "1", "2", "3", "4", "5", "6", "7", "8", "9">>

Range(seq) == {seq[i] : i \in 1..Len(seq)}

(* String.prototype.toLowerCase *)
ToLowerChar(c) ==
    IF c \in Range(UpperCase)
    THEN LowerCase[CHOOSE i \in 1..Len(UpperCase) : UpperCase[i] = c]
    ELSE c

ToLowerCase(str) == [i \in 1..Len(str) |-> ToLowerChar(str[i])]

(* String.prototype.includes *)
Includes(str, sub) ==
    \E i \in 0..(Len(str) - Len(sub)) : SubSeq(str, i + 1, i + Len(sub)) = sub

(* Array.prototype.join *)
RECURSIVE Join(_, _)
Join(parts, sep) ==
    IF Len(parts) = 0 THEN <<>>
    ELSE IF Len(parts) = 1 THEN parts[1]
    ELSE parts[1] \o sep \o Join(Tail(parts), sep)

(* a number in a template literal: its decimal digits *)
RECURSIVE Decimal(_)
Decimal(n) ==
    IF n < 10 THEN <<Digits[n + 1]>>
    ELSE Decimal(n \div 10) \o <<Digits[(n % 10) + 1]>>

Newline == <<"\n">>

----------------------------------------------------------------------------
(* KiroClient: tool names *)

(* [a-zA-Z0-9_] *)
IsWordChar(c) == c \in Range(LowerCase) \cup Range(UpperCase) \cup Range(Digits) \cup {"_"}

(* raw.replace(/[^a-zA-Z0-9_]/g, '_') *)
ReplaceUnsafe(raw) == [i \in 1..Len(raw) |-> IF IsWordChar(raw[i]) THEN raw[i] ELSE "_"]

(* .replace(/_+/g, '_') *)
RECURSIVE CollapseUnderscores(_)
CollapseUnderscores(str) ==
    IF Len(str) < 2 THEN str
    ELSE IF str[1] = "_" /\ str[2] = "_" THEN CollapseUnderscores(Tail(str))
    ELSE <<str[1]>> \o CollapseUnderscores(Tail(str))

(* replaced.replace(/^_+|_+$/g, '') *)
RECURSIVE TrimLeft(_)
TrimLeft(str) ==
    IF Len(str) > 0 /\ str[1] = "_" THEN TrimLeft(Tail(str)) ELSE str

RECURSIVE TrimRight(_)
TrimRight(str) ==
    IF Len(str) > 0 /\ str[Len(str)] = "_"
    THEN TrimRight(SubSeq(str, 1, Len(str) - 1)) ELSE str

(* a trim that leaves the underscores at the end *)
TrimLeading(str) == TrimLeft(str)

TrimUnderscores(str) == TrimRight(TrimLeft(str))

(* trimmed.length > 0 ? trimmed : 'tool' *)
OrTool(trimmed) == IF Len(trimmed) > 0 THEN trimmed ELSE <<"t", "o", "o", "l">>

(* /^[0-9]/.test(safe) ? `t_${safe}` : safe *)
PrefixDigit(safe) == IF safe[1] \in Range(Digits) THEN <<"t", "_">> \o safe ELSE safe

(* a sanitizer that forgets the t_ in front of a leading digit *)
SanitizeNoPrefix(name) ==
    OrTool(TrimUnderscores(CollapseUnderscores(ReplaceUnsafe(name))))

(* sanitizeToolName(name) *)
SanitizeToolName(name) ==
    PrefixDigit(OrTool(TrimUnderscores(CollapseUnderscores(ReplaceUnsafe(name)))))

(* a search for a free name that gives up after the first suffix *)
FirstSuffixOnly(base, candidate, i, usedNames) ==
    IF candidate \in usedNames THEN base \o <<"_">> \o Decimal(i) ELSE candidate

(* while (usedNames.has(candidate)) candidate = `${base}_${i++}` *)
RECURSIVE FreeName(_, _, _, _)
FreeName(base, candidate, i, usedNames) ==
    IF candidate \in usedNames
    THEN FreeName(base, base \o <<"_">> \o Decimal(i), i + 1, usedNames)
    ELSE candidate

(* let candidate = base; let i = 2; while ... *)
Candidate(base, usedNames) == FreeName(base, base, 2, usedNames)

(* a Map: a function on its keys *)
EmptyMap == <<>>

MapPut(map, key, value) ==
    [k \in (DOMAIN map) \cup {key} |-> IF k = key THEN value ELSE map[k]]

(* the name map and the used-name set of one request *)
Names(map, used) == [toolNameMap |-> map, usedNames |-> used]

(* usedNames.add(candidate); toolNameMap.set(originalName, candidate); *)
(* return candidate                                                     *)
Recorded(originalName, candidate, names) ==
    [name |-> candidate,
     names |-> Names(MapPut(names.toolNameMap, originalName, candidate),
                     names.usedNames \cup {candidate})]

(* a lookup that never consults the map *)
AlwaysCreates(originalName, names) ==
    Recorded(originalName,
             Candidate(SanitizeToolName(originalName), names.usedNames), names)

(* getOrCreateKiroToolName(originalName, toolNameMap, usedNames): the name it *)
(* returns, and the map and the set as it leaves them                         *)
GetOrCreateKiroToolName(originalName, names) ==
    IF originalName \in DOMAIN names.toolNameMap
    THEN [name |-> names.toolNameMap[originalName], names |-> names]
    ELSE Recorded(originalName,
                  Candidate(SanitizeToolName(originalName), names.usedNames), names)

(* a filter that compares the name as it was written *)
CaseSensitive(name) ==
    name = <<"w", "e", "b", "_", "s", "e", "a", "r", "c", "h">> \/ name = <<"w", "e", "b", "s", "e", "a", "r", "c", "h">>

(* isUnsupportedTool(name) *)
IsUnsupportedTool(name) ==
    LET lower == ToLowerCase(name)
    IN  lower = <<"w", "e", "b", "_", "s", "e", "a", "r", "c", "h">> \/ lower = <<"w", "e", "b", "s", "e", "a", "r", "c", "h">>

----------------------------------------------------------------------------
(* KiroClient: the client request and the literals of the translation *)

Continue == <<"c", "o", "n", "t", "i", "n", "u", "e">>
Ok == <<"O", "K">>
FollowInstructions ==
    <<"I", " ", "w", "i", "l", "l", " ", "f", "o", "l", "l", "o", "w", " ",
      "t", "h", "e", "s", "e", " ", "i", "n", "s", "t", "r", "u", "c", "t",
      "i", "o", "n", "s", ".">>
ThinkingModeTag == <<"<", "t", "h", "i", "n", "k", "i", "n", "g", "_", "m", "o", "d", "e", ">">>
MaxThinkingLengthTag ==
    <<"<", "m", "a", "x", "_", "t", "h", "i", "n", "k", "i", "n", "g", "_",
      "l", "e", "n", "g", "t", "h", ">">>
ThinkingOpen == <<"<", "t", "h", "i", "n", "k", "i", "n", "g", ">">>
ThinkingClose == <<"<", "/", "t", "h", "i", "n", "k", "i", "n", "g", ">">>

(* `<thinking_mode>enabled</thinking_mode><max_thinking_length>${budgetTokens}</max_thinking_length>` *)
ThinkingPrefixOf(budgetTokens) ==
    ThinkingModeTag \o <<"e", "n", "a", "b", "l", "e", "d", "<", "/", "t", "h", "i", "n", "k", "i", "n", "g", "_", "m", "o", "d", "e", ">">>
    \o MaxThinkingLengthTag \o Decimal(budgetTokens)
    \o <<"<", "/", "m", "a", "x", "_", "t", "h", "i", "n", "k", "i", "n", "g", "_", "l", "e", "n", "g", "t", "h", ">">>

(* A content: a string, an array of blocks, or absent *)
StringContent(text) == [type |-> "string", text |-> text, blocks |-> <<>>]
ArrayContent(blocks) == [type |-> "array", text |-> <<>>, blocks |-> blocks]
NoContent == [type |-> "absent", text |-> <<>>, blocks |-> <<>>]

(* The blocks of an array content.  The input of a tool_use block and the *)
(* description and input_schema of a tool are carried through by         *)
(* normalizeJsonObject and are left out.                                 *)
TextBlock(text) == [type |-> "text", text |-> text]
ThinkingBlock(thinking) == [type |-> "thinking", thinking |-> thinking]
ToolUseBlock(id, name) == [type |-> "tool_use", id |-> id, name |-> name]
ToolResultBlock(toolUseId, content, isError) ==
    [type |-> "tool_result", tool_use_id |-> toolUseId, content |-> content,
     is_error |-> isError]

Message(role, content) == [role |-> role, content |-> content]

(* the model ids of the built-in mapping; null *)
NoModel == "null"

(* mapModel(model), no dbManager bound *)
MapModel(model) ==
    LET lower == ToLowerCase(model) IN
    IF Includes(lower, <<"s", "o", "n", "n", "e", "t">>) THEN "claude-sonnet-4.5"
    ELSE IF Includes(lower, <<"o", "p", "u", "s">>) THEN "claude-opus-4.5"
    ELSE IF Includes(lower, <<"h", "a", "i", "k", "u">>) THEN "claude-haiku-4.5"
    ELSE NoModel

(* JavaScript truthiness of a content or of a system prompt: an array is *)
(* truthy even when empty, a string when it is not empty                 *)
Truthy(content) ==
    \/ content.type = "array"
    \/ content.type = "string" /\ Len(content.text) > 0

----------------------------------------------------------------------------
(* KiroClient: the content extractors *)

(* the text of the blocks of one type, in order *)
RECURSIVE TextsOf(_, _)
TextsOf(blocks, type) ==
    IF Len(blocks) = 0 THEN <<>>
    ELSE (IF blocks[1].type = type THEN <<blocks[1].text>> ELSE <<>>)
         \o TextsOf(Tail(blocks), type)

(* the content of a tool_result block, coerced to a string *)
ResultContent(content) ==
    CASE content.type = "string" -> content.text
      [] content.type = "array" ->
           Join([i \in 1..Len(content.blocks) |-> content.blocks[i].text], Newline)
      [] OTHER -> <<>>

ToolResult(block) ==
    [toolUseId |-> block.tool_use_id,
     status |-> IF block.is_error THEN "error" ELSE "success",
     content |-> <<[text |-> ResultContent(block.content)]>>]

RECURSIVE ToolResultsOf(_)
ToolResultsOf(blocks) ==
    IF Len(blocks) = 0 THEN <<>>
    ELSE (IF blocks[1].type = "tool_result" THEN <<ToolResult(blocks[1])>> ELSE <<>>)
         \o ToolResultsOf(Tail(blocks))

(* extractUserContent(content) *)
ExtractUserContent(content) ==
    IF ~Truthy(content) THEN [text |-> <<>>, toolResults |-> <<>>]
    ELSE IF content.type = "string" THEN [text |-> content.text, toolResults |-> <<>>]
    ELSE [text |-> Join(TextsOf(content.blocks, "text"), Newline),
          toolResults |-> ToolResultsOf(content.blocks)]

(* thinkingContent += block.thinking || '' *)
RECURSIVE ThinkingOf(_)
ThinkingOf(blocks) ==
    IF Len(blocks) = 0 THEN <<>>
    ELSE (IF blocks[1].type = "thinking" THEN blocks[1].thinking ELSE <<>>)
         \o ThinkingOf(Tail(blocks))

(* toolUses.push({toolUseId: block.id, name: ..., input: ...}) *)
PushToolUse(used, block, named) ==
    [toolUses |-> Append(used.toolUses, [toolUseId |-> block.id, name |-> named.name]),
     names |-> named.names]

(* the tool_use blocks of an assistant message, in order: the unsupported *)
(* ones are skipped, the others get their Kiro name                       *)
RECURSIVE ToolUsesOf(_, _)
ToolUsesOf(blocks, used) ==
    IF Len(blocks) = 0 THEN used
    ELSE IF blocks[1].type = "tool_use" /\ ~IsUnsupportedTool(blocks[1].name)
    THEN ToolUsesOf(Tail(blocks),
                    PushToolUse(used, blocks[1],
                                GetOrCreateKiroToolName(blocks[1].name, used.names)))
    ELSE ToolUsesOf(Tail(blocks), used)

(* finalText, before the 'OK' of a message that only uses tools *)
FinalText(thinkingContent, textParts) ==
    IF Len(thinkingContent) > 0
    THEN IF Len(textParts) > 0
         THEN ThinkingOpen \o thinkingContent \o ThinkingClose
              \o Newline \o Newline \o Join(textParts, Newline)
         ELSE ThinkingOpen \o thinkingContent \o ThinkingClose
    ELSE Join(textParts, Newline)

(* if (!finalText && toolUses.length > 0) finalText = 'OK'; return *)
AssistantContent(finalText, used) ==
    [text |-> IF Len(finalText) = 0 /\ Len(used.toolUses) > 0 THEN Ok ELSE finalText,
     toolUses |-> used.toolUses,
     names |-> used.names]

(* extractAssistantContent(content, toolNameMap, usedToolNames) *)
ExtractAssistantContent(content, names) ==
    IF content.type = "string"
    THEN [text |-> content.text, toolUses |-> <<>>, names |-> names]
    ELSE AssistantContent(
             FinalText(ThinkingOf(content.blocks), TextsOf(content.blocks, "text")),
             ToolUsesOf(content.blocks, [toolUses |-> <<>>, names |-> names]))

(* a loop that keeps the tool results of the last message only *)
CollectedLast(parts, extracted) ==
    [textParts |-> IF Len(extracted.text) > 0 THEN Append(parts.textParts, extracted.text)
                   ELSE parts.textParts,
     toolResults |-> extracted.toolResults]

(* if (text) contentParts.push(text); allToolResults.push(...toolResults) *)
Collected(parts, extracted) ==
    [textParts |-> IF Len(extracted.text) > 0 THEN Append(parts.textParts, extracted.text)
                   ELSE parts.textParts,
     toolResults |-> parts.toolResults \o extracted.toolResults]

NothingCollected == [textParts |-> <<>>, toolResults |-> <<>>]

(* the loop of mergeUserMessages and of the current message: the non-empty *)
(* texts and all the tool results of the messages, in order                *)
RECURSIVE Collect(_, _)
Collect(messages, parts) ==
    IF Len(messages) = 0 THEN parts
    ELSE Collect(Tail(messages),
                 Collected(parts, ExtractUserContent(messages[1].content)))

(* a userInputMessage; a userInputMessageContext that holds no tools and no *)
(* toolResults stands for an absent one                                    *)
UserInputMessage(content, modelId, tools, toolResults) ==
    [content |-> content, modelId |-> modelId, origin |-> "AI_EDITOR",
     userInputMessageContext |-> [tools |-> tools, toolResults |-> toolResults]]

(* contentParts.join('\n') || (allToolResults.length > 0 ? 'continue' : '') *)
MergedContent(joined, toolResults) ==
    IF Len(joined) > 0 THEN joined
    ELSE IF Len(toolResults) > 0 THEN Continue ELSE <<>>

(* userMsg *)
Merged(parts, modelId) ==
    UserInputMessage(MergedContent(Join(parts.textParts, Newline), parts.toolResults),
                     modelId, <<>>, parts.toolResults)

(* mergeUserMessages(messages, modelId) *)
MergeUserMessages(messages, modelId) ==
    Merged(Collect(messages, NothingCollected), modelId)

----------------------------------------------------------------------------
(* KiroClient: convertRequest *)

(* anthropicReq.thinking.budget_tokens || 10000 *)
DefaultBudgetTokens == 10000

(* an absent thinking prefix (null); a prefix is never the empty string *)
NoPrefix == <<>>

(* this.tokenManager.credentials *)
Credentials == [profileArn |-> "profileArn"]

(* what convertRequest throws, and what it returns *)
Failure(error) ==
    [status |-> "error", error |-> error, kiroRequest |-> <<>>, toolNameMap |-> EmptyMap]
Success(kiroRequest, map) ==
    [status |-> "ok", error |-> "none", kiroRequest |-> kiroRequest, toolNameMap |-> map]

(* a window that holds the last message alone *)
LastMessageOnly(messages, currentStart) ==
    IF currentStart > 0 /\ messages[currentStart].role = "user"
    THEN currentStart - 1 ELSE currentStart

(* while (currentStart > 0 && messages[currentStart - 1].role === 'user') currentStart-- *)
RECURSIVE CurrentStart(_, _)
CurrentStart(messages, currentStart) ==
    IF currentStart > 0 /\ messages[currentStart].role = "user"
    THEN CurrentStart(messages, currentStart - 1)
    ELSE currentStart

(* messages.slice(currentStart) *)
CurrentUserMessages(messages, currentStart) ==
    SubSeq(messages, currentStart + 1, Len(messages))

EndsWithAssistant(messages, currentStart) ==
    /\ Len(CurrentUserMessages(messages, currentStart)) = 0
    /\ Len(messages) > 0
    /\ messages[Len(messages)].role = "assistant"

(* let thinkingPrefix = null; if (anthropicReq.thinking && ...) *)
ThinkingPrefix(thinking) ==
    IF thinking.type = "enabled"
    THEN ThinkingPrefixOf(IF thinking.budget_tokens # 0 THEN thinking.budget_tokens
                          ELSE DefaultBudgetTokens)
    ELSE NoPrefix

(* the two turns that carry the system prompt or the thinking prefix *)
InstructionTurns(content, modelId) ==
    << [userInputMessage |-> UserInputMessage(content, modelId, <<>>, <<>>)],
       [assistantResponseMessage |-> [content |-> FollowInstructions, toolUses |-> <<>>]] >>

(* systemContent *)
SystemContent(system) ==
    IF system.type = "string" THEN system.text
    ELSE Join([i \in 1..Len(system.blocks) |-> system.blocks[i].text], Newline)

(* finalContent *)
FinalContent(systemContent, thinkingPrefix) ==
    IF /\ thinkingPrefix # NoPrefix
       /\ ~Includes(systemContent, ThinkingModeTag)
       /\ ~Includes(systemContent, MaxThinkingLengthTag)
    THEN thinkingPrefix \o Newline \o systemContent
    ELSE systemContent

(* if (systemContent) { ... } *)
SystemPair(systemContent, thinkingPrefix, modelId) ==
    IF Len(systemContent) > 0
    THEN InstructionTurns(FinalContent(systemContent, thinkingPrefix), modelId)
    ELSE <<>>

(* the history that the system prompt and the thinking prefix produce *)
SystemTurns(system, thinkingPrefix, modelId) ==
    IF Truthy(system) THEN SystemPair(SystemContent(system), thinkingPrefix, modelId)
    ELSE IF thinkingPrefix # NoPrefix THEN InstructionTurns(thinkingPrefix, modelId)
    ELSE <<>>

(* if (userBuffer.length > 0) { history.push(merged); userBuffer = [] } *)
Flush(walk, modelId) ==
    IF Len(walk.userBuffer) > 0
    THEN [walk EXCEPT
             !.history = Append(@, [userInputMessage |->
                                       MergeUserMessages(walk.userBuffer, modelId)]),
             !.userBuffer = <<>>]
    ELSE walk

(* history.push({ assistantResponseMessage: assistantMsg }) *)
PushAssistant(walk, extracted) ==
    [history |-> Append(walk.history,
                        [assistantResponseMessage |->
                            [content |-> extracted.text, toolUses |-> extracted.toolUses]]),
     userBuffer |-> walk.userBuffer,
     names |-> extracted.names]

(* the body of the history loop for one message *)
Visit(walk, msg, modelId) ==
    IF msg.role = "user" THEN [walk EXCEPT !.userBuffer = Append(@, msg)]
    ELSE IF msg.role = "assistant"
    THEN PushAssistant(Flush(walk, modelId),
                       ExtractAssistantContent(msg.content, walk.names))
    ELSE walk

(* for (let i = 0; i < historyEnd; i++): message i + 1 of the request is the *)
(* next one to visit                                                        *)
RECURSIVE HistoryWalk(_, _, _, _, _)
HistoryWalk(messages, i, historyEnd, walk, modelId) ==
    IF i >= historyEnd THEN walk
    ELSE HistoryWalk(messages, i + 1, historyEnd,
                     Visit(walk, messages[i + 1], modelId), modelId)

(* a used-name set that still holds the names of the last translation *)
CarriedNames ==
    Names(EmptyMap, {result.toolNameMap[k] : k \in DOMAIN result.toolNameMap})

(* const toolNameMap = new Map(); const usedToolNames = new Set(); *)
FreshNames == Names(EmptyMap, {})

(* a history loop that stops in front of the last assistant message *)
WalkedWithoutSuffix(anthropicReq, modelId, currentStart) ==
    HistoryWalk(anthropicReq.messages, 0,
                IF EndsWithAssistant(anthropicReq.messages, currentStart)
                THEN Len(anthropicReq.messages) - 1 ELSE currentStart,
                [history |-> SystemTurns(anthropicReq.system,
                                         ThinkingPrefix(anthropicReq.thinking), modelId),
                 userBuffer |-> <<>>,
                 names |-> FreshNames],
                modelId)

(* the history loop, from the turns of the system prompt *)
Walked(anthropicReq, modelId, currentStart) ==
    HistoryWalk(anthropicReq.messages, 0,
                IF EndsWithAssistant(anthropicReq.messages, currentStart)
                THEN Len(anthropicReq.messages) ELSE currentStart,
                [history |-> SystemTurns(anthropicReq.system,
                                         ThinkingPrefix(anthropicReq.thinking), modelId),
                 userBuffer |-> <<>>,
                 names |-> FreshNames],
                modelId)

(* the user messages left in the buffer become a turn, answered by 'OK' *)
History(walk, modelId) ==
    IF Len(walk.userBuffer) > 0
    THEN walk.history \o
         << [userInputMessage |-> MergeUserMessages(walk.userBuffer, modelId)],
            [assistantResponseMessage |-> [content |-> Ok, toolUses |-> <<>>]] >>
    ELSE walk.history

(* textParts.join('\n') || 'continue' *)
OrContinue(joined) == IF Len(joined) > 0 THEN joined ELSE Continue

(* currentText and allToolResults *)
Current(messages, currentStart) ==
    IF EndsWithAssistant(messages, currentStart)
    THEN [text |-> Continue, toolResults |-> <<>>]
    ELSE [text |-> OrContinue(Join(Collect(CurrentUserMessages(messages, currentStart),
                                           NothingCollected).textParts, Newline)),
          toolResults |-> Collect(CurrentUserMessages(messages, currentStart),
                                  NothingCollected).toolResults]

(* .map(t => ({ toolSpecification: { name: ..., ... } })) *)
PushTool(specified, named) ==
    [tools |-> Append(specified.tools, [toolSpecification |-> [name |-> named.name]]),
     names |-> named.names]

(* (anthropicReq.tools || []).filter(...).map(...) *)
RECURSIVE ToolSpecifications(_, _)
ToolSpecifications(tools, specified) ==
    IF Len(tools) = 0 THEN specified
    ELSE IF IsUnsupportedTool(tools[1].name)
    THEN ToolSpecifications(Tail(tools), specified)
    ELSE ToolSpecifications(Tail(tools),
             PushTool(specified, GetOrCreateKiroToolName(tools[1].name, specified.names)))

ChatTriggerType(anthropicReq) ==
    IF Len(anthropicReq.tools) > 0 /\ anthropicReq.tool_choice \in {"any", "tool"}
    THEN "AUTO" ELSE "MANUAL"

(* kiroRequest *)
KiroRequest(chatTriggerType, current, modelId, specified, history, uuids) ==
    [conversationState |->
        [agentContinuationId |-> uuids[2],
         agentTaskType |-> "vibe",
         chatTriggerType |-> chatTriggerType,
         currentMessage |->
             [userInputMessage |->
                 UserInputMessage(current.text, modelId, specified.tools,
                                  current.toolResults)],
         conversationId |-> uuids[1],
         history |-> history],
     profileArn |-> Credentials.profileArn]

(* return { kiroRequest, toolNameMap } *)
Converted(anthropicReq, modelId, walk, specified, uuids) ==
    Success(KiroRequest(ChatTriggerType(anthropicReq),
                        Current(anthropicReq.messages,
                                CurrentStart(anthropicReq.messages,
                                             Len(anthropicReq.messages))),
                        modelId, specified, History(walk, modelId), uuids),
            specified.names.toolNameMap)

(* the tools are named after the history loop, over the same map *)
Specified(anthropicReq, walk) ==
    ToolSpecifications(anthropicReq.tools, [tools |-> <<>>, names |-> walk.names])

(* convertRequest from the history loop on *)
Translate(anthropicReq, modelId, walk, uuids) ==
    Converted(anthropicReq, modelId, walk, Specified(anthropicReq, walk), uuids)

(* convertRequest(anthropicReq); uuids are the two values uuidv4() returns *)
ConvertRequest(anthropicReq, uuids) ==
    IF MapModel(anthropicReq.model) = NoModel THEN Failure("UnsupportedModel")
    ELSE IF Len(anthropicReq.messages) = 0 THEN Failure("EmptyMessages")
    ELSE Translate(anthropicReq, MapModel(anthropicReq.model),
                   Walked(anthropicReq, MapModel(anthropicReq.model),
                          CurrentStart(anthropicReq.messages, Len(anthropicReq.messages))),
                   uuids)

----------------------------------------------------------------------------
(* The client requests *)

MaxMessages == 2
MaxCalls == 3

Request(model, messages, system, thinking, tools, toolChoice) ==
    [model |-> model, messages |-> messages, system |-> system,
     thinking |-> thinking, tools |-> tools, tool_choice |-> toolChoice]

Tool(name) == [name |-> name]

Thinking(type, budgetTokens) == [type |-> type, budget_tokens |-> budgetTokens]

UserMessages ==
    { Message("user", StringContent(<<"x">>)),
      Message("user", StringContent(<<>>)),
      Message("user", ArrayContent(<< TextBlock(<<"p">>),
                                      ToolResultBlock("T1", StringContent(<<"r">>), FALSE) >>)),
      Message("user", ArrayContent(<< ToolResultBlock("T2",
                                          ArrayContent(<<TextBlock(<<"q">>)>>), TRUE),
                                      ToolResultBlock("T3", StringContent(<<"s">>), FALSE) >>)) }

AssistantMessages ==
    { Message("assistant", StringContent(<<"y">>)),
      Message("assistant", ArrayContent(<< ToolUseBlock("T1", <<"a", "!">>) >>)),
      Message("assistant", ArrayContent(<< ThinkingBlock(<<"t">>), TextBlock(<<"z">>),
                                           ToolUseBlock("T2", <<"a", "?">>) >>)),
      Message("assistant", ArrayContent(<< ToolUseBlock("T3", <<"w", "e", "b", "_", "s", "e", "a", "r", "c", "h">>),
                                           ToolUseBlock("T4", <<"1">>) >>)) }

MessageLists ==
    UNION {[1..n -> UserMessages \cup AssistantMessages] : n \in 0..MaxMessages}

Models == {<<"c", "l", "a", "u", "d", "e", "-", "O", "p", "u", "s", "-", "4">>, <<"g", "p", "t", "-", "4">>}

SystemPrompts ==
    { NoContent,
      StringContent(<<"S">>),
      StringContent(ThinkingModeTag \o <<"S">>),
      ArrayContent(<<TextBlock(<<>>)>>) }

ThinkingConfigs ==
    { Thinking("absent", 0), Thinking("enabled", 0), Thinking("enabled", 4096) }

ToolLists ==
    { <<>>,
      <<Tool(<<"a", "!">>)>>,
      <<Tool(<<"1">>), Tool(<<"a", "?">>)>>,
      <<Tool(<<"w", "e", "b", "_", "s", "e", "a", "r", "c", "h">>), Tool(<<"a", "!">>)>>,
      <<Tool(<<"W", "e", "b", "S", "e", "a", "r", "c", "h">>)>> }

ToolChoices == {"absent", "auto", "any"}

UuidPairs == {<<"uuid1", "uuid2">>, <<"uuid3", "uuid4">>}

(* the original tool names of the calls to getOrCreateKiroToolName *)
NameChars == {"a", "2", "_", "!"}

ToolNames ==
    UNION {[1..n -> NameChars] : n \in 0..2}
    \cup { <<"a", "_", "2">>, <<"a", "!", "2">>, <<"a", "_", "2", "!">> }

(* The end-to-end scenarios of the service: a single user text, an       *)
(* assistant suffix, merged trailing users, and a tool result threaded   *)
(* through a tool use, for a tool named "web.search!" and for one named  *)
(* "do.thing"                                                            *)
ToolResultThreading(name) ==
    << Message("user", ArrayContent(<<TextBlock(<<"r", "u", "n">>)>>)),
       Message("assistant", ArrayContent(<< TextBlock(<<"c", "a", "l", "l", "i", "n", "g">>),
                                            ToolUseBlock("T1", name) >>)),
       Message("user", ArrayContent(<< ToolResultBlock("T1", StringContent(<<"4", "2">>), FALSE) >>)) >>

ExampleConversations ==
    { << Message("user", StringContent(<<"h", "i">>)) >>,
      << Message("user", StringContent(<<"a">>)), Message("assistant", StringContent(<<"b">>)) >>,
      << Message("user", StringContent(<<"x">>)), Message("assistant", StringContent(<<"y">>)),
         Message("user", StringContent(<<"p">>)), Message("user", StringContent(<<"q">>)) >>,
      ToolResultThreading(<<"w", "e", "b", ".", "s", "e", "a", "r", "c", "h", "!">>),
      ToolResultThreading(<<"d", "o", ".", "t", "h", "i", "n", "g">>) }

ExampleToolLists ==
    { <<>>,
      <<Tool(<<"a", "!">>), Tool(<<"a", "?">>)>>,
      <<Tool(<<"d", "o", ".", "t", "h", "i", "n", "g">>)>> }

----------------------------------------------------------------------------
(* Specifications *)

NoRequest == Request(<<>>, <<>>, NoContent, Thinking("absent", 0), <<>>, "absent")
NoResult == [status |-> "none", error |-> "none", kiroRequest |-> <<>>, toolNameMap |-> EmptyMap]
NoCall == [originalName |-> <<>>, name |-> <<>>]

NoTranslation == request = NoRequest /\ result = NoResult /\ calls = <<>>
NoNaming == toolNameMap = EmptyMap /\ usedToolNames = {} /\ returned = NoCall

(* The pool, with its roster writes left in flight: accounts.json is read by *)
(* load() alone, so a completed write changes nothing the handlers read.     *)
Init == NewAccountPool /\ NoTranslation /\ NoNaming

Spec == Init /\ [][Next]_vars

(* The pool and the file system, from a roster file that holds accounts *)
InitPersist == Init /\ disk.valid /\ Len(disk.roster) > 0 /\ disk.roster[1].status = "active"

NextPersist ==
    \/ Next
    \/ \E w \in pending : WriteCompletes(w)

SpecPersist == InitPersist /\ [][NextPersist]_vars

(* The translation of one client request *)
InitConvert ==
    /\ NewAccountPool /\ ~disk.valid
    /\ request \in [model : Models, messages : MessageLists, system : SystemPrompts,
                    thinking : ThinkingConfigs, tools : ToolLists,
                    tool_choice : ToolChoices]
    /\ result = NoResult
    /\ calls = <<>>
    /\ NoNaming

CallConvertRequest ==
    /\ result = NoResult
    /\ \E uuids \in UuidPairs : result' = ConvertRequest(request, uuids)
    /\ UNCHANGED <<poolVars, request, calls, naming>>

SpecConvert == InitConvert /\ [][CallConvertRequest]_vars

(* The names that one request gives to its tools *)
InitNames == NewAccountPool /\ ~disk.valid /\ NoTranslation /\ NoNaming

CallGetOrCreateKiroToolName(originalName) ==
    /\ ops < MaxCalls
    /\ ops' = ops + 1
    /\ LET named == GetOrCreateKiroToolName(originalName, Names(toolNameMap, usedToolNames))
       IN  /\ toolNameMap' = named.names.toolNameMap
           /\ usedToolNames' = named.names.usedNames
           /\ returned' = [originalName |-> originalName, name |-> named.name]
    /\ UNCHANGED <<translation, pc, accounts, tokenManagers, strategy, roundRobinIndex,
                   timers, disk, pending, adding, nextGen, lastOp, selections, run>>

NextNames == \E originalName \in ToolNames : CallGetOrCreateKiroToolName(originalName)

SpecNames == InitNames /\ [][NextNames]_vars

(* The translation of one conversation: every list of messages, under *)
(* every system prompt, thinking configuration and list of tools, and *)
(* no tool_choice                                                     *)
InitConversation ==
    /\ NewAccountPool /\ ~disk.valid
    /\ request \in [model : Models, messages : MessageLists, system : SystemPrompts,
                    thinking : ThinkingConfigs,
                    tools : ToolLists, tool_choice : {"absent"}]
    /\ result = NoResult
    /\ calls = <<>>
    /\ NoNaming

SpecConversation == InitConversation /\ [][CallConvertRequest]_vars

(* The translation of the end-to-end scenarios, by one client: a request *)
(* is translated, and the same request is translated again              *)
InitExamples ==
    /\ NewAccountPool /\ ~disk.valid
    /\ request \in [model : {<<"c", "l", "a", "u", "d", "e", "-", "3", "-", "5", "-", "s", "o", "n", "n", "e", "t", "-", "l", "a", "t", "e", "s", "t">>},
                    messages : ExampleConversations,
                    system : {NoContent, StringContent(<<>>), StringContent(<<"S">>)},
                    thinking : ThinkingConfigs,
                    tools : ExampleToolLists, tool_choice : {"absent"}]
    /\ result = NoResult
    /\ calls = <<>>
    /\ NoNaming

CallConvertRequestAgain ==
    /\ result # NoResult
    /\ ops < MaxCalls
    /\ ops' = ops + 1
    /\ \E uuids \in UuidPairs : result' = ConvertRequest(request, uuids)
    /\ UNCHANGED <<request, calls, naming, pc, accounts, tokenManagers, strategy, roundRobinIndex,
                   timers, disk, pending, adding, nextGen, lastOp, selections, run>>

SpecExamples == InitExamples /\ [][CallConvertRequest \/ CallConvertRequestAgain]_vars

(* callApiStream(anthropicReq) of a client without a proxy, for a request *)
(* that convertRequest translates or rejects                              *)
InitDispatch ==
    /\ NewAccountPool /\ ~disk.valid
    /\ request \in [model : Models,
                    messages : ExampleConversations \cup {<<>>},
                    system : {NoContent}, thinking : {Thinking("absent", 0)},
                    tools : ExampleToolLists, tool_choice : {"absent"}]
    /\ result = NoResult
    /\ calls = <<>>
    /\ NoNaming

(* const token = await this.tokenManager.ensureValidToken(): the call is *)
(* made and callApiStream waits for it                                   *)
CallApiStream ==
    /\ calls = <<>>
    /\ calls' = <<"ensureValidToken">>
    /\ UNCHANGED <<poolVars, request, result, naming>>

(* the token manager has no valid token: callApiStream rejects *)
EnsureValidTokenRejects ==
    /\ calls = <<"ensureValidToken">>
    /\ calls' = <<"ensureValidToken", "throw">>
    /\ UNCHANGED <<poolVars, request, result, naming>>

(* the token arrives: convertRequest runs, and throws or is followed by *)
(* buildHeaders and by the POST, which callApiStream waits for          *)
EnsureValidTokenResolves ==
    /\ calls = <<"ensureValidToken">>
    /\ \E uuids \in UuidPairs : result' = ConvertRequest(request, uuids)
    /\ calls' = IF result'.status = "ok"
                THEN <<"ensureValidToken", "convertRequest", "buildHeaders", "fetch">>
                ELSE <<"ensureValidToken", "convertRequest", "throw">>
    /\ UNCHANGED <<poolVars, request, naming>>

(* the response arrives: return { response, toolNameMap }, or throw a *)
(* KiroApiError when it is not ok                                     *)
FetchResolves(ok) ==
    /\ calls = <<"ensureValidToken", "convertRequest", "buildHeaders", "fetch">>
    /\ calls' = Append(calls, IF ok THEN "return" ELSE "throw")
    /\ UNCHANGED <<poolVars, request, result, naming>>

SpecDispatch ==
    InitDispatch /\ [][\/ CallApiStream
                       \/ EnsureValidTokenRejects
                       \/ EnsureValidTokenResolves
                       \/ \E ok \in BOOLEAN : FetchResolves(ok)]_vars

----------------------------------------------------------------------------
(* Claims about the pool *)

Account(id) == MapGet(accounts, id)

Selected == lastOp.op = "selectAccount" /\ lastOp.id # NoId

(* C2: the account selectAccount returns is in the roster and its status is *)
(* active at the moment of the selection, whatever operations came before.   *)
C2_SelectedIsActive ==
    Selected => lastOp.id \in Ids(accounts) /\ Account(lastOp.id).status = "active"

(* an account is returned while another account of the roster is not active *)
C2_Witness ==
    /\ Selected
    /\ \E i \in 1..Len(accounts) :
          accounts[i].id # lastOp.id /\ accounts[i].status \in {"invalid", "cooldown", "disabled"}

(* C3: right after recordError(id, true) the account is in cooldown; when the *)
(* timer of a rate-limit error has run, the account is active, unless         *)
(* markInvalid, enableAccount or disableAccount ran on it since the error.    *)
C3_CooldownThenActive ==
    /\ (lastOp.op = "recordError" /\ lastOp.rl /\ lastOp.id \in Ids(accounts))
          => Account(lastOp.id).status = "cooldown"
    /\ (lastOp.op = "timer" /\ lastOp.id \in Ids(accounts) /\ ~Account(lastOp.id).touched)
          => Account(lastOp.id).status = "active"

(* the timer of an account nobody touched has run and the account is active *)
C3_Witness ==
    /\ lastOp.op = "timer"
    /\ lastOp.id \in Ids(accounts)
    /\ ~Account(lastOp.id).touched
    /\ Account(lastOp.id).status = "active"

(* C4: no account is in cooldown for longer than the cooldown interval, however *)
(* it came to be in cooldown.                                                   *)
C4_CooldownEnds ==
    \A i \in 1..Len(accounts) :
        accounts[i].status = "cooldown" => accounts[i].age <= Cooldown

AdminOps == {"markInvalid", "enableAccount", "disableAccount"}

SameObject(id) ==
    /\ id \in Ids(accounts)
    /\ id \in Ids(accounts')
    /\ MapGet(accounts', id).gen = Account(id).gen

(* C5: the status of a disabled or invalid account changes only in a step of *)
(* markInvalid, enableAccount or disableAccount on it, and an account enters  *)
(* cooldown only from active.                                                 *)
C5_AdminOnly ==
    [][\A id \in AccountIds :
          SameObject(id) /\ MapGet(accounts', id).status # Account(id).status =>
             /\ Account(id).status \in {"disabled", "invalid"}
                   => lastOp'.op \in AdminOps /\ lastOp'.id = id
             /\ MapGet(accounts', id).status = "cooldown"
                   => Account(id).status = "active"]_vars

Distinct(picks, k) ==
    \A i \in 1..Len(picks), j \in 1..Len(picks) :
        i < j /\ j - i < k => picks[i] # picks[j]

(* C6: under round-robin, while the list of active accounts stays the same, *)
(* any k consecutive picks are k distinct accounts, k the number of active   *)
(* accounts.                                                                 *)
C6_RoundRobinDistinct == Distinct(run, Len(Available(accounts)))

(* two consecutive picks over two active accounts, the index having wrapped *)
C6_Witness ==
    /\ Len(run) = 2
    /\ Len(Available(accounts)) = 2
    /\ roundRobinIndex > 2

SelectionPairs(sameRecord) ==
    \A i \in 1..Len(selections), j \in 1..Len(selections) :
        i < j =>
          /\ ~(/\ selections[i].id = selections[j].id
               /\ selections[i].requestCount = selections[j].requestCount
               /\ sameRecord => selections[i].gen = selections[j].gen)
          /\ selections[i].index # Never => selections[i].index # selections[j].index

(* C7 as stated: no two selections use the same round-robin index, and no two *)
(* selections produce the same pair of account id and requestCount.           *)
C7_PairsOnce == SelectionPairs(FALSE)

(* C7 amended: no two selections use the same round-robin index, and no two   *)
(* selections of the same account record produce the same requestCount.       *)
C7_PairsOncePerRecord == SelectionPairs(TRUE)

(* the same record was selected twice *)
C7_Witness ==
    \E i \in 1..Len(selections), j \in 1..Len(selections) :
        /\ i < j
        /\ selections[i].id = selections[j].id
        /\ selections[i].gen = selections[j].gen

(* C8: when no roster write is in flight, accounts.json holds the roster as it *)
(* is in memory.                                                               *)
C8_DiskIsCurrent ==
    (pc = "running" /\ pending = {}) => disk = File(Snapshot(accounts))

(* a step of selectAccount that returns an account *)
Selects == ops' = ops + 1 /\ lastOp'.op = "selectAccount" /\ lastOp'.id # NoId

(* the place of an account in the roster *)
Place(id) == CHOOSE i \in 1..Len(accounts) : accounts[i].id = id

(* C21: with the least-used strategy, selectAccount returns an active      *)
(* account whose requestCount before the bump is minimal among the active  *)
(* accounts, and of the active accounts with that minimum it returns the   *)
(* first in roster order.                                                  *)
C21_LeastUsedFirst ==
    [][Selects /\ strategy = "least-used" =>
          /\ Account(lastOp'.id).status = "active"
          /\ \A i \in 1..Len(accounts) :
                 accounts[i].status = "active" =>
                    /\ Account(lastOp'.id).requestCount <= accounts[i].requestCount
                    /\ Account(lastOp'.id).requestCount = accounts[i].requestCount
                          => Place(lastOp'.id) <= i]_vars

(* a step of selectAccount, whatever it returns *)
SelectStep == ops' = ops + 1 /\ lastOp'.op = "selectAccount"

(* C22: selectAccount returns no account exactly when no account of the   *)
(* roster is active, and then changes nothing: the accounts (requestCount, *)
(* lastUsedAt, status) and the round-robin index are the same and no       *)
(* roster write is started.  When an account is active it returns one,     *)
(* whose requestCount grows by exactly one, and the requestCount of every  *)
(* other account stays the same.                                           *)
C22_NullIffNoneActive ==
    [][SelectStep =>
          /\ lastOp'.id = NoId <=> \A i \in 1..Len(accounts) : accounts[i].status # "active"
          /\ lastOp'.id = NoId =>
                 /\ accounts' = accounts
                 /\ roundRobinIndex' = roundRobinIndex
                 /\ pending' = pending
          /\ lastOp'.id # NoId =>
                 /\ lastOp'.id \in Ids(accounts)
                 /\ Len(accounts') = Len(accounts)
                 /\ \A i \in 1..Len(accounts) :
                        /\ accounts'[i].id = accounts[i].id
                        /\ accounts'[i].requestCount =
                               IF accounts[i].id = lastOp'.id
                               THEN accounts[i].requestCount + 1
                               ELSE accounts[i].requestCount]_vars

(* selectAccount has returned null over a roster that holds accounts, one *)
(* of them used before, with a roster write still in flight               *)
C22_Witness ==
    /\ lastOp.op = "selectAccount"
    /\ lastOp.id = NoId
    /\ \E i \in 1..Len(accounts) : accounts[i].requestCount > 0
    /\ pending # {}

(* a step of recordError(id, false) *)
RecordsPlainError ==
    ops' = ops + 1 /\ lastOp'.op = "recordError" /\ ~lastOp'.rl

(* C23: recordError(id, false) adds exactly one to the errorCount of the  *)
(* account and changes nothing else: its status, requestCount and         *)
(* lastUsedAt, every other account, the round-robin index and the timers  *)
(* are the same; for an id that is not in the roster nothing changes at   *)
(* all, and no roster write is started.                                   *)
C23_ErrorCountOnly ==
    [][RecordsPlainError =>
          /\ roundRobinIndex' = roundRobinIndex
          /\ timers' = timers
          /\ strategy' = strategy
          /\ tokenManagers' = tokenManagers
          /\ IF lastOp'.id \in Ids(accounts)
             THEN accounts' =
                     [i \in 1..Len(accounts) |->
                         IF accounts[i].id = lastOp'.id
                         THEN [accounts[i] EXCEPT !.errorCount = @ + 1]
                         ELSE accounts[i]]
             ELSE accounts' = accounts /\ pending' = pending]_vars

(* an error that is not a rate limit was recorded for an account that is *)
(* active, next to another account of the roster                         *)
C23_Witness ==
    /\ lastOp.op = "recordError"
    /\ ~lastOp.rl
    /\ lastOp.id \in Ids(accounts)
    /\ Account(lastOp.id).status = "active"
    /\ Account(lastOp.id).errorCount = 1
    /\ Len(accounts) = 2

(* C25: a cooldown lasts the whole cooldown interval, counted from the    *)
(* most recent rate-limit error on the account: no timer, in particular   *)
(* not the timer of an earlier rate-limit error on the same account,      *)
(* returns the account to active before that interval has passed.         *)
C25_FullCooldown ==
    [][\A id \in AccountIds :
          ( /\ lastOp'.op = "timer"
            /\ SameObject(id)
            /\ Account(id).status = "cooldown"
            /\ MapGet(accounts', id).status = "active" )
          => Account(id).age >= Cooldown]_vars

(* a step in which the validation of addAccount fails *)
ValidationFails == lastOp'.op = "addAccount:rejected" /\ adding' # adding

(* C27: after any sequence of load, addAccount, removeAccount and        *)
(* removeAccounts the ids that have a token manager are the ids of the   *)
(* roster, so the account selectAccount returns has its token manager;   *)
(* an addAccount whose validation fails leaves both sets as they were.   *)
C27_TokenManagersMatchRoster ==
    /\ [](/\ tokenManagers = Ids(accounts)
          /\ Selected => lastOp.id \in tokenManagers)
    /\ [][ValidationFails =>
              tokenManagers' = tokenManagers /\ accounts' = accounts]_vars

(* removeAccounts has taken an account out of a roster of two, and the *)
(* write of the shortened roster is still in flight                    *)
C27_Witness ==
    /\ lastOp.op = "removeAccounts"
    /\ Cardinality(tokenManagers) = 1
    /\ Len(accounts) = 1
    /\ pending # {}

----------------------------------------------------------------------------
(* Claims about the translation *)

Translated == result.status = "ok"
State == result.kiroRequest.conversationState
IsUserTurn(entry) == DOMAIN entry = {"userInputMessage"}
IsAssistantTurn(entry) == DOMAIN entry = {"assistantResponseMessage"}

(* C1: the history of a translated request has even length and alternates  *)
(* userInputMessage / assistantResponseMessage, starting with a            *)
(* userInputMessage and ending with an assistantResponseMessage, and the   *)
(* currentMessage is a userInputMessage.                                   *)
C1_HistoryAlternates ==
    Translated =>
        /\ Len(State.history) % 2 = 0
        /\ \A i \in 1..Len(State.history) :
              IF i % 2 = 1 THEN IsUserTurn(State.history[i])
              ELSE IsAssistantTurn(State.history[i])
        /\ IsUserTurn(State.currentMessage)

(* ^[A-Za-z_][A-Za-z0-9_]*$ *)
Letters == Range(LowerCase) \cup Range(UpperCase)
IsIdentifier(name) ==
    /\ Len(name) > 0
    /\ name[1] \in Letters \cup {"_"}
    /\ \A i \in 1..Len(name) : name[i] \in Letters \cup Range(Digits) \cup {"_"}

(* the tool names of the envelope: those of the toolUses of the assistant *)
(* turns and those of the tools of the current message                    *)
ToolUseNames ==
    UNION { {State.history[i].assistantResponseMessage.toolUses[j].name :
                j \in 1..Len(State.history[i].assistantResponseMessage.toolUses)} :
            i \in {k \in 1..Len(State.history) : IsAssistantTurn(State.history[k])} }
CurrentTools == State.currentMessage.userInputMessage.userInputMessageContext.tools
ToolSpecificationNames ==
    {CurrentTools[i].toolSpecification.name : i \in 1..Len(CurrentTools)}
EnvelopeToolNames == ToolUseNames \cup ToolSpecificationNames
MapValues(map) == {map[k] : k \in DOMAIN map}

(* C9: every tool name of the envelope of a translated request matches    *)
(* ^[A-Za-z_][A-Za-z0-9_]*$ and is a value of the returned tool-name map. *)
C9_ToolNamesSafe ==
    Translated =>
        \A name \in EnvelopeToolNames :
            IsIdentifier(name) /\ name \in MapValues(result.toolNameMap)

(* a translated request with a name that got a collision suffix in a tool *)
(* use and a name that starts with a digit in a tool definition           *)
C9_Witness ==
    /\ Translated
    /\ <<"a", "_", "2">> \in ToolUseNames
    /\ <<"t", "_", "1">> \in ToolSpecificationNames

(* C10: after any sequence of getOrCreateKiroToolName calls over one map  *)
(* and one used-name set, two distinct original names never have the same *)
(* sanitized name.                                                        *)
C10_MapInjective ==
    \A k1 \in DOMAIN toolNameMap : \A k2 \in DOMAIN toolNameMap :
        toolNameMap[k1] = toolNameMap[k2] => k1 = k2

(* the original name a_2 arrives after the suffix _2 was given to another *)
(* name with the base a, and gets a name of its own                       *)
C10_Witness ==
    /\ <<"a", "_", "2">> \in DOMAIN toolNameMap
    /\ toolNameMap[<<"a", "_", "2">>] = <<"a", "_", "2", "_", "2">>
    /\ \E k \in DOMAIN toolNameMap : toolNameMap[k] = <<"a", "_", "2">>

(* C11: a call of getOrCreateKiroToolName for an original name that the   *)
(* map already holds returns the name recorded for it and changes neither *)
(* the map nor the used-name set.                                         *)
C11_LookupIdempotent ==
    [][returned'.originalName \in DOMAIN toolNameMap =>
           /\ returned'.name = toolNameMap[returned'.originalName]
           /\ toolNameMap' = toolNameMap
           /\ usedToolNames' = usedToolNames]_vars

(* more calls were made than there are original names: one name was *)
(* looked up again, after another name took a suffix of the same base *)
C11_Witness ==
    /\ ops > Cardinality(DOMAIN toolNameMap)
    /\ returned.originalName = <<"a", "!">>
    /\ <<"a", "_", "2">> \in usedToolNames

(* the blocks of one type in the messages of one role of the request *)
RequestBlocks(role, type) ==
    UNION { {request.messages[i].content.blocks[j] :
                j \in {k \in 1..Len(request.messages[i].content.blocks) :
                          request.messages[i].content.blocks[k].type = type}} :
            i \in {k \in 1..Len(request.messages) : request.messages[k].role = role} }

WebSearchNames ==
    { <<"w", "e", "b", "_", "s", "e", "a", "r", "c", "h">>,
      <<"w", "e", "b", "s", "e", "a", "r", "c", "h">> }
IsWebSearch(name) == ToLowerCase(name) \in WebSearchNames

(* the ids of the tool uses of the request that name a web-search tool *)
WebSearchIds ==
    {block.id : block \in {b \in RequestBlocks("assistant", "tool_use") : IsWebSearch(b.name)}}

(* the toolUses entries and the toolResults entries of the envelope *)
EnvelopeToolUses ==
    UNION { Range(State.history[i].assistantResponseMessage.toolUses) :
            i \in {k \in 1..Len(State.history) : IsAssistantTurn(State.history[k])} }
UserTurns ==
    {State.history[i].userInputMessage :
        i \in {k \in 1..Len(State.history) : IsUserTurn(State.history[k])}}
    \cup {State.currentMessage.userInputMessage}
EnvelopeToolResults ==
    UNION {Range(turn.userInputMessageContext.toolResults) : turn \in UserTurns}

(* C12: a tool whose lowercased name is web_search or websearch is in no  *)
(* tool definition of the current message and in no toolUses entry of an  *)
(* assistant turn (the definitions are those of the other tools, the map  *)
(* names no web-search tool, no toolUses entry has the id of a web-search *)
(* tool use), and every tool_result block that refers to the id of such a *)
(* tool use is a toolResults entry of the envelope.                       *)
C12_WebSearchDropped ==
    Translated =>
        LET ids == WebSearchIds
            entries == EnvelopeToolResults
        IN  /\ Len(CurrentTools) =
                   Cardinality({i \in 1..Len(request.tools) :
                                   ~IsWebSearch(request.tools[i].name)})
            /\ \A name \in DOMAIN result.toolNameMap : ~IsWebSearch(name)
            /\ \A use \in EnvelopeToolUses : use.toolUseId \notin ids
            /\ \A block \in RequestBlocks("user", "tool_result") :
                   block.tool_use_id \in ids =>
                       \E entry \in entries :
                           /\ entry.toolUseId = block.tool_use_id
                           /\ entry.content = <<[text |-> ResultContent(block.content)]>>

(* a web_search tool is declared next to another tool and used next to   *)
(* another tool use, and the result of its use came back                 *)
C12_Witness ==
    /\ Translated
    /\ "T3" \in WebSearchIds
    /\ \E entry \in EnvelopeToolResults : entry.toolUseId = "T3"
    /\ \E use \in EnvelopeToolUses : use.toolUseId = "T4"
    /\ \E i \in 1..Len(request.tools) : IsWebSearch(request.tools[i].name)
    /\ Len(CurrentTools) = 1

(* C13: a tool_use block whose sanitized name is web_search produces no   *)
(* toolUses entry: the scenario with the tool named "web.search!" has no  *)
(* toolUses entry at all, the one with the tool named "do.thing" has the  *)
(* entry do_thing in its assistant turn, and the tool result of the       *)
(* current message keeps toolUseId T1 with the status success.            *)
C13_SanitizedNameFiltered ==
    Translated =>
        /\ \A block \in RequestBlocks("assistant", "tool_use") :
               IsWebSearch(SanitizeToolName(block.name)) =>
                   \A use \in EnvelopeToolUses : use.toolUseId # block.id
        /\ request.messages = ToolResultThreading(<<"d", "o", ".", "t", "h", "i", "n", "g">>) =>
               /\ EnvelopeToolUses = {[toolUseId |-> "T1", name |-> <<"d", "o", "_", "t", "h", "i", "n", "g">>]}
               /\ State.currentMessage.userInputMessage.userInputMessageContext.toolResults =
                      << [toolUseId |-> "T1", status |-> "success",
                          content |-> <<[text |-> <<"4", "2">>]>>] >>

CollidingTools == <<Tool(<<"a", "!">>), Tool(<<"a", "?">>)>>

(* C14, as the specification states it: the tools "a!" and "a?", in that *)
(* order, are named "a_" and "a__2", and the returned map holds both     *)
(* original names.                                                       *)
C14_UnderscoreKept ==
    Translated /\ request.tools = CollidingTools =>
        /\ CurrentTools = << [toolSpecification |-> [name |-> <<"a", "_">>]],
                             [toolSpecification |-> [name |-> <<"a", "_", "_", "2">>]] >>
        /\ {<<"a", "!">>, <<"a", "?">>} \subseteq DOMAIN result.toolNameMap

(* C14, amended: the tools "a!" and "a?", in that order, are named "a"   *)
(* and "a_2" (the underscore that stands for "!" or "?" is trimmed, the  *)
(* base "a" is taken when "a?" arrives, so the suffix _2 is appended),   *)
(* and the returned map holds both original names with these names.      *)
C14_CollisionSuffix ==
    Translated /\ request.tools = CollidingTools =>
        /\ CurrentTools = << [toolSpecification |-> [name |-> <<"a">>]],
                             [toolSpecification |-> [name |-> <<"a", "_", "2">>]] >>
        /\ {<<"a", "!">>, <<"a", "?">>} \subseteq DOMAIN result.toolNameMap
        /\ result.toolNameMap[<<"a", "!">>] = <<"a">>
        /\ result.toolNameMap[<<"a", "?">>] = <<"a", "_", "2">>

(* the two tools were translated, next to a tool use of the history *)
C14_Witness ==
    /\ Translated
    /\ request.tools = CollidingTools
    /\ Len(CurrentTools) = 2
    /\ Cardinality(DOMAIN result.toolNameMap) = 3

(* the result of a translation, the two generated identifiers blanked *)
WithoutIds(translated) ==
    IF translated.status = "ok"
    THEN [translated EXCEPT !.kiroRequest.conversationState.conversationId = "",
                            !.kiroRequest.conversationState.agentContinuationId = ""]
    ELSE translated

LastRole == request.messages[Len(request.messages)].role

(* the number of messages in front of the maximal trailing run of user *)
(* messages                                                            *)
RunStart ==
    CHOOSE k \in 0..Len(request.messages) :
        /\ \A i \in (k + 1)..Len(request.messages) : request.messages[i].role = "user"
        /\ k = 0 \/ request.messages[k].role # "user"

(* the non-empty extracted texts of the trailing run, in input order *)
RunTexts ==
    LET start == RunStart
    IN  SelectSeq([i \in 1..(Len(request.messages) - start) |->
                       ExtractUserContent(request.messages[start + i].content).text],
                  LAMBDA text : Len(text) > 0)

(* the history of the request cut in front of the trailing run: the turns *)
(* of the system prompt when nothing is in front of it                    *)
HistoryBeforeRun ==
    LET start == RunStart
    IN  IF start = 0
        THEN SystemTurns(request.system, ThinkingPrefix(request.thinking),
                         MapModel(request.model))
        ELSE ConvertRequest([request EXCEPT !.messages = SubSeq(@, 1, start)],
                            <<"", "">>).kiroRequest.conversationState.history

(* C16: when the last message has the role user, the content of the      *)
(* current message is the non-empty extracted texts of the maximal       *)
(* trailing run of user messages, joined with a newline in input order,  *)
(* or "continue" when that join is empty; it is never the empty string;  *)
(* and the history is the one of the messages in front of the run.       *)
C16_CurrentFromTrailingRun ==
    Translated /\ LastRole = "user" =>
        LET joined == Join(RunTexts, Newline)
        IN  /\ State.currentMessage.userInputMessage.content =
                   (IF Len(joined) > 0 THEN joined ELSE Continue)
            /\ Len(State.currentMessage.userInputMessage.content) > 0
            /\ State.history = HistoryBeforeRun

(* a run of two user messages behind an assistant message, or a run of *)
(* two user messages with texts, was merged into the current message   *)
C16_Witness ==
    /\ Translated
    /\ LastRole = "user"
    /\ Len(request.messages) - RunStart = 2
    /\ Len(RunTexts) = 2
    /\ State.currentMessage.userInputMessage.content = <<"x">> \o Newline \o <<"p">>

(* the turns of the history behind those of the system prompt *)
MessageTurns ==
    SubSeq(State.history,
           Len(SystemTurns(request.system, ThinkingPrefix(request.thinking),
                           MapModel(request.model))) + 1,
           Len(State.history))

(* the contents of the assistant turns of the message turns, in order *)
AssistantTurnTexts ==
    LET turns == SelectSeq(MessageTurns, IsAssistantTurn)
    IN  [i \in 1..Len(turns) |-> turns[i].assistantResponseMessage.content]

IsAssistantMessage(message) == message.role = "assistant"

(* the texts extracted from the assistant messages of the request, in order *)
AssistantMessageTexts ==
    LET answers == SelectSeq(request.messages, IsAssistantMessage)
    IN  [i \in 1..Len(answers) |->
            ExtractAssistantContent(answers[i].content, Names(EmptyMap, {})).text]

HistoryUserTurns ==
    {State.history[i].userInputMessage :
        i \in {k \in 1..Len(State.history) : IsUserTurn(State.history[k])}}

(* C17: when the last message has the role assistant, every message of   *)
(* the request is in the history (the assistant turns behind the system  *)
(* prompt are the assistant messages in order, the last one included;    *)
(* every text and every tool result of a user message is in a user turn  *)
(* of the history), and the current message has the content "continue"   *)
(* and no toolResults.                                                   *)
C17_AssistantSuffix ==
    Translated /\ LastRole = "assistant" =>
        /\ State.currentMessage.userInputMessage.content = Continue
        /\ State.currentMessage.userInputMessage.userInputMessageContext.toolResults = <<>>
        /\ AssistantTurnTexts = AssistantMessageTexts
        /\ IsAssistantTurn(State.history[Len(State.history)])
        /\ LET turns == HistoryUserTurns
           IN  /\ \A i \in {k \in 1..Len(request.messages) :
                                request.messages[k].role = "user"} :
                      \E turn \in turns :
                          Includes(turn.content,
                                   ExtractUserContent(request.messages[i].content).text)
               /\ \A block \in RequestBlocks("user", "tool_result") :
                      \E turn \in turns :
                          ToolResult(block) \in Range(turn.userInputMessageContext.toolResults)

(* a user message with a text and a tool result, then an assistant message *)
C17_Witness ==
    /\ Translated
    /\ Len(request.messages) = 2
    /\ request.messages[1].role = "user"
    /\ LastRole = "assistant"
    /\ RequestBlocks("user", "tool_result") # {}
    /\ Len(State.history) >= 2
    /\ State.currentMessage.userInputMessage.content = Continue

(* the system prompt coerced to a string: a string is itself, an array of *)
(* text blocks is the join of their texts, an absent one is empty         *)
SystemText ==
    CASE request.system.type = "string" -> request.system.text
      [] request.system.type = "array" ->
           Join([i \in 1..Len(request.system.blocks) |-> request.system.blocks[i].text],
                Newline)
      [] OTHER -> <<>>

RequestedPrefix ==
    ThinkingPrefixOf(IF request.thinking.budget_tokens # 0
                     THEN request.thinking.budget_tokens ELSE 10000)

(* C18: whenever thinking.type is enabled, the history starts with a user *)
(* turn that carries the thinking prefix, with budget_tokens or 10000,    *)
(* followed by the assistant turn "I will follow these instructions.":    *)
(* the content is the prefix, a newline and the system text when that     *)
(* text is not empty and holds neither marker, and the prefix alone when  *)
(* the system coerces to the empty string (absent, an empty string, or an *)
(* array of blocks whose joined text is empty).                           *)
C18_ThinkingPrefixFirst ==
    Translated /\ request.thinking.type = "enabled" =>
        /\ Len(State.history) >= 2
        /\ IsUserTurn(State.history[1])
        /\ State.history[2] =
               [assistantResponseMessage |-> [content |-> FollowInstructions, toolUses |-> <<>>]]
        /\ Len(SystemText) = 0 =>
               State.history[1].userInputMessage.content = RequestedPrefix
        /\ ( /\ Len(SystemText) > 0
             /\ ~Includes(SystemText, ThinkingModeTag)
             /\ ~Includes(SystemText, MaxThinkingLengthTag) ) =>
               State.history[1].userInputMessage.content =
                   RequestedPrefix \o Newline \o SystemText

DispatchCalls == {"ensureValidToken", "buildHeaders", "fetch"}
Called(call) == \E i \in 1..Len(calls) : calls[i] = call

(* C19: within one request the translation completes before any dispatch *)
(* work: the token acquisition, the header construction and the upstream *)
(* POST are made after convertRequest has returned, and a request whose  *)
(* translation fails makes none of them.                                 *)
C19_TranslationBeforeDispatch ==
    /\ \A i \in 1..Len(calls) :
           calls[i] \in DispatchCalls =>
               \E j \in 1..(i - 1) : calls[j] = "convertRequest"
    /\ result.status = "error" => \A call \in DispatchCalls : ~Called(call)

(* C20: a request whose messages are empty is rejected with EmptyMessages, *)
(* also when its model maps to nothing; a request with messages whose      *)
(* model maps to nothing is rejected with UnsupportedModel; a rejected     *)
(* request has no envelope and no name map.                                *)
C20_EmptyMessagesFirst ==
    result # NoResult =>
        /\ Len(request.messages) = 0 =>
               result.status = "error" /\ result.error = "EmptyMessages"
        /\ Len(request.messages) > 0 /\ MapModel(request.model) = NoModel =>
               result.status = "error" /\ result.error = "UnsupportedModel"
        /\ result.status = "error" =>
               result.kiroRequest = <<>> /\ result.toolNameMap = EmptyMap

(* C24: chatTriggerType is AUTO exactly when the envelope holds tools and *)
(* tool_choice.type is any or tool; in every other case (no tools, every  *)
(* tool removed by the unsupported-tool filter, no tool_choice, a         *)
(* tool_choice of another type) it is MANUAL.                             *)
C24_AutoIffToolsInEnvelope ==
    Translated =>
        /\ State.chatTriggerType \in {"AUTO", "MANUAL"}
        /\ State.chatTriggerType = "AUTO" <=>
               Len(CurrentTools) > 0 /\ request.tool_choice \in {"any", "tool"}

IsToolResultBlock(block) == block.type = "tool_result"

(* the tool_result blocks of one message, in order, as the identifier and *)
(* the status the envelope has to carry for each                          *)
ResultsOfMessage(message) ==
    LET blocks == SelectSeq(message.content.blocks, IsToolResultBlock)
    IN  [i \in 1..Len(blocks) |->
            [toolUseId |-> blocks[i].tool_use_id,
             status |-> IF blocks[i].is_error THEN "error" ELSE "success"]]

(* the tool results of the request, one group for each maximal run of user *)
(* messages, in input order; open tells that message i - 1 is a user       *)
(* message                                                                 *)
RECURSIVE ResultGroups(_, _, _)
ResultGroups(i, groups, open) ==
    IF i > Len(request.messages) THEN groups
    ELSE IF request.messages[i].role # "user" THEN ResultGroups(i + 1, groups, FALSE)
    ELSE IF open
    THEN ResultGroups(i + 1,
                      [groups EXCEPT ![Len(groups)] = @ \o ResultsOfMessage(request.messages[i])],
                      TRUE)
    ELSE ResultGroups(i + 1, Append(groups, ResultsOfMessage(request.messages[i])), TRUE)

(* the groups the envelope has to hold: the current message of a request *)
(* that ends with an assistant message holds none                        *)
ExpectedResults ==
    IF LastRole = "assistant" THEN Append(ResultGroups(1, <<>>, FALSE), <<>>)
    ELSE ResultGroups(1, <<>>, FALSE)

CarriedResults(turn) ==
    [i \in 1..Len(turn.userInputMessageContext.toolResults) |->
        [toolUseId |-> turn.userInputMessageContext.toolResults[i].toolUseId,
         status |-> turn.userInputMessageContext.toolResults[i].status]]

(* the toolResults of the user turns behind the system prompt, in order, *)
(* and those of the current message                                      *)
EnvelopeResults ==
    LET turns == SelectSeq(MessageTurns, IsUserTurn)
    IN  [i \in 1..Len(turns) |-> CarriedResults(turns[i].userInputMessage)]
        \o <<CarriedResults(State.currentMessage.userInputMessage)>>

(* C26: every tool_result block of every user message of the request is   *)
(* in the envelope exactly once, with its toolUseId and its status (error  *)
(* iff is_error), in input order, in the toolResults of the user turn its  *)
(* message was merged into: a userInputMessage of the history for a        *)
(* message before the current window, the currentMessage for one in it.    *)
C26_ToolResultsConserved ==
    Translated => EnvelopeResults = ExpectedResults

(* the tool results of two user messages were merged into the current *)
(* message, one of them an error                                      *)
C26_Witness ==
    /\ Translated
    /\ Len(request.messages) = 2
    /\ Len(CarriedResults(State.currentMessage.userInputMessage)) = 3
    /\ CarriedResults(State.currentMessage.userInputMessage)[1].toolUseId = "T1"
    /\ CarriedResults(State.currentMessage.userInputMessage)[2].status = "error"

====
